---- MODULE Spec2Model ----
(***************************************************************************)
(* Model of the PDF form engine of backend/services/form_filler.py and its *)
(* wrappers in backend/services/form_handler.py: loading a document,       *)
(* analysing its form, filling fields, flattening and saving.              *)
(*                                                                         *)
(* A document is the object graph the codec (pypdf) hands to the engine:   *)
(* the encryption dictionary, the catalog's /AcroForm entry with its /XFA  *)
(* entry and field table, the field dictionaries, and the pages with their *)
(* annotation lists.  One fill call is a sequence of steps (pc).  The      *)
(* helpers are also called on their own (call, ret), the font manager is   *)
(* used by concurrent threads, and the fill and flatten endpoints of       *)
(* backend/api/forms.py answer one request (api).                          *)
(***************************************************************************)
EXTENDS Integers, Sequences, FiniteSets, TLC

VARIABLES
    pc,          \* position of the call: see the actions below
    reader,      \* PDFFormFiller.reader: the loaded input document
    analysis,    \* PDFFormFiller.analysis: NoAnalysis or a FormAnalysisResult
    args,        \* the arguments of the fill call in progress
    writer,      \* the PdfWriter built by fill: the output object graph
    todo,        \* _fill_fields: the keys of field_values not yet iterated
    filled,      \* _fill_fields: local list filled
    failed,      \* _fill_fields: local list failed
    written,     \* names for which the codec's field update was invoked
    result,      \* the FillResult of the call
    outcome,     \* how the call ended: "none", "returned" or "raised"
    fatal,       \* the fatal error met by the call, "none" if none
    flattenErr,  \* whether _flatten_form swallowed an exception
    output,      \* the document written at output_path, NoDoc if none
    call,        \* a call of one helper on its own: [fn, arg]
    ret,         \* what that call returned: <<>> before, <<value>> after
    fontEnv,     \* the machine: the font files that exist, what the
                 \* rendering library can register
    default_font,      \* ChineseFontManager._default_font
    registered_fonts,  \* ChineseFontManager._registered_fonts
    thread,      \* per thread: position in get_default_chinese_font, locals
    registerCalls,     \* the calls of pdfmetrics.registerFont, in order
    cacheWrites, \* the assignments to _default_font, in order
    api          \* one request to the forms API: position, request, the
                 \* file at the output path, the engine's answer, response

\* The state of one fill call.
fillVars == <<pc, reader, analysis, args, writer, todo, filled, failed, written,
              result, outcome, fatal, flattenErr, output>>

\* The state of a helper call on its own.
callVars == <<call, ret>>

\* The state of the font manager and of the threads using it.
fontVars == <<fontEnv, default_font, registered_fonts, thread, registerCalls,
              cacheWrites>>

\* The state of a request to the forms API.
apiVars == <<api>>

vars == <<fillVars, callVars, fontVars, apiVars>>

-----------------------------------------------------------------------------
(* Bounds of the model.                                                    *)

\* Largest number of pages of an input document.
MaxPages == 2

\* Largest number of entries of the field_values map of one fill call.
MaxKeys == 2

-----------------------------------------------------------------------------
(* Values.                                                                 *)

\* Python None, for optional strings.
None == "<None>"

\* Fully qualified names of the field dictionaries a document may hold.
FieldNames == {"t", "r", "c"}

\* Keys a caller may put in field_values: the field names and a foreign one.
KeyNames == FieldNames \cup {"unknownField"}

\* A caller-supplied value: a Python bool or a Python str.
BoolVal(b) == [kind |-> "bool", b |-> b, s |-> ""]

StrVal(s) == [kind |-> "str", b |-> FALSE, s |-> s]

CallerValues == {BoolVal(TRUE), StrVal(""), StrVal("x")}

-----------------------------------------------------------------------------
(* Documents: the object graph of a PDF file as the codec exposes it.      *)

\* A field dictionary: /FT, /Ff, /V (None when the key is absent), the
\* checked-state name of its appearance dictionary /AP /N (None when there
\* is none), its appearance state /AS, its /Rect (<<>> when the key is
\* absent), and /MaxLen (<<>> when the key is absent, else <<n>>).
FieldDict(ft, ff, v, on, rect) ==
    [FT |-> ft, Ff |-> ff, V |-> v, on |-> on, AS |-> None, Rect |-> rect,
     MaxLen |-> <<>>]

\* The field dictionaries of the documents of the model, by name:
\* a text field, a read-only text field, and a check box whose checked
\* appearance state is named /Selected.
FieldCatalogue ==
    [n \in FieldNames |->
        CASE n = "t" -> FieldDict("/Tx", 0, None, None, <<0, 0, 100, 20>>)
          [] n = "r" -> FieldDict("/Tx", 1, "old", None, <<0, 30, 100, 50>>)
          [] OTHER   -> FieldDict("/Btn", 0, "/Off", "/Selected", <<0, 60, 10, 70>>)]

\* An entry of a page's /Annots array:
\*   "widget" a merged field/widget dictionary (/Subtype /Widget, /T = obj),
\*   "kid"    a widget-only dictionary (/Subtype /Widget, /Parent = obj, no /T),
\*   "link"   an annotation of another subtype,
\*   "null"   a reference that resolves to the null object (not a dictionary).
Widget(n) == [kind |-> "widget", obj |-> n]

Kid(n) == [kind |-> "kid", obj |-> n]

Link == [kind |-> "link", obj |-> None]

NullAnnot == [kind |-> "null", obj |-> None]

\* A page: whether it has an /Annots key, and the entries of the array.
Page(annots) == [hasAnnots |-> TRUE, annots |-> annots]

NoAnnotsPage == [hasAnnots |-> FALSE, annots |-> <<>>]

\* An /XFA entry: absent, one stream, or an array [name, stream, ...].
\* The text of a stream is a sequence of tokens.
XfaLabel == [isStream |-> FALSE, data |-> <<>>]

XfaStream(data) == [isStream |-> TRUE, data |-> data]

NoXfa == [kind |-> "none", items |-> <<>>]

XfaSingle(data) == [kind |-> "stream", items |-> <<XfaStream(data)>>]

XfaArray(items) == [kind |-> "array", items |-> items]

\* The encryption of a document: is_encrypted, and the /P entry of the
\* /Encrypt dictionary (hasP is false when it is missing or no integer).
Unencrypted == [encrypted |-> FALSE, hasP |-> FALSE, P |-> 0]

Encrypted(p) == [encrypted |-> TRUE, hasP |-> TRUE, P |-> p]

EncryptedNoP == [encrypted |-> TRUE, hasP |-> FALSE, P |-> 0]

Range(f) == {f[i] : i \in DOMAIN f}

\* The names of the field dictionaries the pages' widgets belong to.
WidgetNames(pages) ==
    {a.obj : a \in {b \in UNION {Range(pg.annots) : pg \in Range(pages)} :
                        b.kind \in {"widget", "kid"}}}

\* A document.  acroForm: the catalog has /AcroForm; table: the names of
\* its field table (get_fields); obj: the field dictionaries.
Doc(enc, acro, xfa, table, pages) ==
    [enc |-> enc, acroForm |-> acro, needAppearances |-> FALSE, xfa |-> xfa,
     table |-> table, obj |-> FieldCatalogue, pages |-> pages]

NoDoc == Doc(Unencrypted, FALSE, NoXfa, {}, <<>>)

\* The annotation lists a page of an input document may have.
PageShapes ==
    {NoAnnotsPage, Page(<<Widget("t")>>), Page(<<Widget("r"), Widget("c")>>),
     Page(<<Link, Widget("t")>>), Page(<<NullAnnot>>)}

\* The page lists of the input documents: up to MaxPages pages, no two
\* with the same annotation list.
PageLists ==
    UNION {{pages \in [1..n -> PageShapes] :
               \A i, j \in 1..n : i # j => pages[i] # pages[j]} :
           n \in 1..MaxPages}

\* The /P values of encrypted input documents: -3904 and 28 have the
\* fill-forms bit (256) clear, -1 and 260 have it set.
PValues == {-3904, -1, 28, 260}

\* Unencrypted documents without XFA: every page layout with an /AcroForm
\* whose field table lists the widgets' fields, and every one-page layout
\* without an /AcroForm.
StructureDocs ==
    {Doc(Unencrypted, TRUE, NoXfa, WidgetNames(pages), pages) : pages \in PageLists}
    \cup {Doc(Unencrypted, FALSE, NoXfa, {}, <<shape>>) : shape \in PageShapes}

\* Encrypted documents.
EncryptedDocs ==
    {Doc(enc, TRUE, NoXfa, {"t"}, <<Page(<<Widget("t")>>)>>) :
        enc \in {Encrypted(p) : p \in PValues} \cup {EncryptedNoP}}

\* The /XFA entries of the input documents.
XfaEntries ==
    {XfaSingle(<<"<xdp>">>), XfaSingle(<<"<xdp>", "dynamicRender">>),
     XfaArray(<<XfaLabel, XfaStream(<<"<xdp>">>), XfaLabel, XfaStream(<<"<script">>)>>),
     XfaArray(<<>>), XfaSingle(<<>>)}

\* Documents with an /XFA entry in their /AcroForm, with and without fields.
XfaDocs ==
    {Doc(Unencrypted, TRUE, xfa, WidgetNames(pages), pages) :
        xfa \in XfaEntries,
        pages \in {<<NoAnnotsPage>>, <<Page(<<Widget("t")>>)>>, <<Page(<<Kid("t")>>)>>}}

\* A document whose /AcroForm already has /NeedAppearances true.
NeedAppearancesDocs ==
    {[Doc(Unencrypted, TRUE, NoXfa, {"t"}, <<Page(<<Widget("t")>>)>>)
         EXCEPT !.needAppearances = TRUE]}

\* The input documents of the model.
Docs == StructureDocs \cup EncryptedDocs \cup XfaDocs \cup NeedAppearancesDocs

-----------------------------------------------------------------------------
(* PDFFormFiller.analyze and its helpers.                                  *)

\* Python's p & mask != 0 for a mask that is a power of two (Python
\* integers are unbounded two's complement; \div rounds down).
HasBit(p, mask) == (p \div mask) % 2 = 1

AllPermissions ==
    [can_modify |-> TRUE, can_fill_forms |-> TRUE,
     can_extract |-> TRUE, can_print |-> TRUE]

\* _check_permissions reading the fill-forms capability from bit 128.
CheckPermissionsWrongBit(d) ==
    IF d.enc.encrypted /\ d.enc.hasP
    THEN [can_print |-> HasBit(d.enc.P, 4), can_modify |-> HasBit(d.enc.P, 8),
          can_extract |-> HasBit(d.enc.P, 16),
          can_fill_forms |-> HasBit(d.enc.P, 128)]
    ELSE AllPermissions

\* _check_permissions giving up every capability when /P cannot be read.
CheckPermissionsDenyOnFailure(d) ==
    IF d.enc.encrypted /\ d.enc.hasP
    THEN [can_print |-> HasBit(d.enc.P, 4), can_modify |-> HasBit(d.enc.P, 8),
          can_extract |-> HasBit(d.enc.P, 16),
          can_fill_forms |-> HasBit(d.enc.P, 256)]
    ELSE IF d.enc.encrypted
    THEN [can_modify |-> FALSE, can_fill_forms |-> FALSE,
          can_extract |-> FALSE, can_print |-> FALSE]
    ELSE AllPermissions

\* _check_permissions: the four capabilities from /P of an encrypted
\* document; a missing or malformed /P raises before any assignment and
\* the exception is swallowed.
CheckPermissions(d) ==
    IF d.enc.encrypted /\ d.enc.hasP
    THEN [can_print |-> HasBit(d.enc.P, 4), can_modify |-> HasBit(d.enc.P, 8),
          can_extract |-> HasBit(d.enc.P, 16),
          can_fill_forms |-> HasBit(d.enc.P, 256)]
    ELSE AllPermissions

\* reader.get_fields(): the field table, empty without an /AcroForm.
GetFields(d) == IF d.acroForm THEN d.table ELSE {}

\* _has_acroform: the catalog has /AcroForm, or get_fields() is not empty.
HasAcroform(d) == IF d.acroForm THEN TRUE ELSE GetFields(d) # {}

\* A stream whose get_data() raises (an undecodable filter chain).
XfaBrokenStream == [isStream |-> TRUE, data |-> <<>>, raises |-> TRUE]

StreamRaises(item) == item.isStream /\ "raises" \in DOMAIN item

\* The streams of an /XFA array read at every index from i on.
RECURSIVE XfaArrayDataEveryIndex(_, _)
XfaArrayDataEveryIndex(items, i) ==
    IF i > Len(items) THEN <<>>
    ELSE (IF items[i].isStream THEN items[i].data ELSE <<>>)
             \o XfaArrayDataEveryIndex(items, i + 1)

\* The streams of an /XFA array are read at the indices 1, 3, ... of the
\* 0-based array, an entry without get_data being skipped.
RECURSIVE XfaArrayData(_, _)
XfaArrayData(items, i) ==
    IF i > Len(items) THEN <<>>
    ELSE (IF items[i].isStream THEN items[i].data ELSE <<>>)
             \o XfaArrayData(items, i + 2)

\* Whether a get_data() call of _detect_xfa raises: on a stream at one of
\* the read indices of an array, or on the single stream.
XfaReadRaises(xfa) ==
    IF xfa.kind = "array"
    THEN \E i \in DOMAIN xfa.items : i % 2 = 0 /\ StreamRaises(xfa.items[i])
    ELSE xfa.kind = "stream" /\ StreamRaises(xfa.items[1])

\* _detect_xfa: (has XFA, XFA text).  The text is <<>> for Python's None:
\* the code turns an empty text into None.  An /XFA entry that is a
\* directly stored empty array is falsy; an exception gives (False, None).
DetectXfa(d) ==
    IF ~d.acroForm THEN [has_xfa |-> FALSE, xfa_data |-> <<>>]
    ELSE IF d.xfa.kind = "none" \/ (d.xfa.kind = "array" /\ d.xfa.items = <<>>)
    THEN [has_xfa |-> FALSE, xfa_data |-> <<>>]
    ELSE IF XfaReadRaises(d.xfa)
    THEN [has_xfa |-> FALSE, xfa_data |-> <<>>]
    ELSE IF d.xfa.kind = "array"
    THEN [has_xfa |-> TRUE, xfa_data |-> XfaArrayData(d.xfa.items, 2)]
    ELSE [has_xfa |-> TRUE, xfa_data |-> d.xfa.items[1].data]

DynamicIndicators ==
    {"dynamicRender", "<script", "layout=\"tb\"", "layout=\"lr\"", "layout=\"rl-tb\""}

\* _is_dynamic_xfa: the text contains one of the indicators.
IsDynamicXfa(xfa_data) ==
    IF xfa_data = <<>> THEN FALSE
    ELSE \E i \in DOMAIN xfa_data : xfa_data[i] \in DynamicIndicators

\* _get_field_type.
GetFieldType(fd) ==
    IF fd.FT = "/Tx" THEN "text"
    ELSE IF fd.FT = "/Btn"
    THEN (IF HasBit(fd.Ff, 32768) THEN "radio"
          ELSE IF HasBit(fd.Ff, 65536) THEN "button"
          ELSE "checkbox")
    ELSE IF fd.FT = "/Ch"
    THEN (IF HasBit(fd.Ff, 131072) THEN "dropdown" ELSE "listbox")
    ELSE IF fd.FT = "/Sig" THEN "signature"
    ELSE "unknown"

\* _parse_field: the FormFieldInfo of a field dictionary.  value is
\* str(/V) when /V is present and truthy, else None; max_length is <<>>
\* for None.
ParseField(name, fd) ==
    [name |-> name,
     max_length |-> fd.MaxLen,
     field_type |-> GetFieldType(fd),
     value |-> IF fd.V # None /\ fd.V # "" THEN fd.V ELSE None,
     rect |-> fd.Rect,
     page_index |-> 0,
     flags |-> fd.Ff,
     is_readonly |-> HasBit(fd.Ff, 1),
     is_required |-> HasBit(fd.Ff, 2)]

\* A field dictionary as name resolution sees it: /T (<<>> when the key is
\* absent, else <<name>>) and /Parent (<<>> or <<the parent dictionary>>).
NamedDict(t, parent) == [T |-> t, Parent |-> parent]

\* A widget annotation that is a dictionary of its own: its /T and /Parent,
\* and its other entries as a field dictionary.
OwnWidget(t, parent, fd) ==
    [kind |-> "widget", obj |-> None, T |-> t, Parent |-> parent, dict |-> fd]

\* Whether an annotation dictionary has /T, and whether it has /Parent.
HasT(a) == IF "T" \in DOMAIN a THEN a.T # <<>> ELSE a.kind = "widget"

HasParent(a) == IF "Parent" \in DOMAIN a THEN a.Parent # <<>> ELSE a.kind = "kid"

\* field_data["/T"] and field_data["/Parent"] (the parent of a "kid" is
\* the field dictionary obj, which has /T and no parent).
LocalName(a) == IF "T" \in DOMAIN a THEN a.T[1] ELSE a.obj

ParentOf(a) ==
    IF "Parent" \in DOMAIN a THEN a.Parent[1] ELSE NamedDict(<<a.obj>>, <<>>)

\* The entries of an annotation other than its name: its own, or those of
\* the document's field dictionary obj.
AnnotDict(d, a) == IF "dict" \in DOMAIN a THEN a.dict ELSE d.obj[a.obj]

\* _get_field_name: str(/T) when the dictionary has /T; else, when it has
\* /Parent, the parent's name joined with its own /T, but only if it has
\* /T, which in this branch it has not; else None.
RECURSIVE GetFieldName(_)
GetFieldName(a) ==
    IF HasT(a) THEN LocalName(a)
    ELSE IF HasParent(a)
    THEN (LET parent_name == GetFieldName(ParentOf(a))
          IN IF parent_name # None /\ parent_name # "" /\ HasT(a)
             THEN parent_name \o "." \o LocalName(a)
             ELSE None)
    ELSE None

\* The annotations of all pages in page order, each with its page index.
RECURSIVE PageAnnots(_, _)
PageAnnots(pages, i) ==
    IF i > Len(pages) THEN <<>>
    ELSE [j \in 1..Len(pages[i].annots) |->
             [page_idx |-> i - 1, annot |-> pages[i].annots[j]]]
         \o PageAnnots(pages, i + 1)

\* The second pass parsing every widget anew, also one whose name the
\* field table has already given.
RECURSIVE WidgetPassReparsing(_, _, _)
WidgetPassReparsing(d, fields, rest) ==
    IF rest = <<>> THEN fields
    ELSE LET a == Head(rest).annot
             page_idx == Head(rest).page_idx
             field_name == GetFieldName(a)
         IN IF a.kind = "null" THEN fields
            ELSE IF a.kind \notin {"widget", "kid"} \/ field_name \in {None, ""}
            THEN WidgetPassReparsing(d, fields, Tail(rest))
            ELSE WidgetPassReparsing(d,
                     [n \in DOMAIN fields \cup {field_name} |->
                         IF n = field_name
                         THEN [ParseField(field_name, AnnotDict(d, a))
                                  EXCEPT !.page_index = page_idx]
                         ELSE fields[n]],
                     Tail(rest))

\* The second pass of _extract_fields over the remaining annotations.
\* An annotation that is no dictionary raises, the exception is swallowed
\* and the fields collected so far are returned.
RECURSIVE WidgetPass(_, _, _)
WidgetPass(d, fields, rest) ==
    IF rest = <<>> THEN fields
    ELSE LET a == Head(rest).annot
             page_idx == Head(rest).page_idx
             field_name == GetFieldName(a)
         IN IF a.kind = "null" THEN fields
            ELSE IF a.kind \notin {"widget", "kid"} \/ field_name \in {None, ""}
            THEN WidgetPass(d, fields, Tail(rest))
            ELSE IF field_name \notin DOMAIN fields
            THEN WidgetPass(d,
                     [n \in DOMAIN fields \cup {field_name} |->
                         IF n = field_name
                         THEN [ParseField(field_name, AnnotDict(d, a))
                                  EXCEPT !.page_index = page_idx]
                         ELSE fields[n]],
                     Tail(rest))
            ELSE WidgetPass(d,
                     [fields EXCEPT ![field_name] =
                         [@ EXCEPT !.page_index = page_idx,
                                   !.rect = IF AnnotDict(d, a).Rect # <<>> /\ @ = <<>>
                                            THEN AnnotDict(d, a).Rect
                                            ELSE @]],
                     Tail(rest))

\* _extract_fields: the field table, then the widgets of the pages.
ExtractFields(d) ==
    WidgetPass(d, [n \in GetFields(d) |-> ParseField(n, d.obj[n])],
               PageAnnots(d.pages, 1))

\* FormAnalysisResult before analyze has run (self.analysis is None).
NoAnalysis ==
    [form_type |-> None, fields |-> [n \in {} |-> 0], has_xfa |-> FALSE,
     xfa_data |-> <<>>, is_encrypted |-> FALSE, permissions |-> AllPermissions,
     warnings |-> <<>>, errors |-> <<>>]

\* The form type analyze sets.
FormTypeOf(has_xfa, has_acroform, xfa_data) ==
    IF has_xfa /\ has_acroform THEN "hybrid"
    ELSE IF has_xfa
    THEN (IF IsDynamicXfa(xfa_data) THEN "xfa_dynamic" ELSE "xfa_static")
    ELSE IF has_acroform THEN "acroform"
    ELSE "none"

\* analyze.
Analyze(d) ==
    LET xfa_result == DetectXfa(d)
        has_acroform == HasAcroform(d)
        form_type == FormTypeOf(xfa_result.has_xfa, has_acroform, xfa_result.xfa_data)
    IN [form_type |-> form_type,
        fields |-> ExtractFields(d),
        has_xfa |-> xfa_result.has_xfa,
        xfa_data |-> xfa_result.xfa_data,
        is_encrypted |-> d.enc.encrypted,
        permissions |-> CheckPermissions(d),
        warnings |->
            (IF d.enc.encrypted THEN <<"encrypted">> ELSE <<>>)
            \o (IF form_type = "hybrid" THEN <<"hybrid: AcroForm takes priority">>
                ELSE IF form_type = "xfa_dynamic" THEN <<"dynamic XFA">>
                ELSE <<>>),
        errors |-> <<>>]

-----------------------------------------------------------------------------
(* PDFFormFiller.fill and its helpers.                                     *)

\* The keys of the field_values maps of the fill calls of the model, in
\* caller order: up to MaxKeys distinct keys.  The value a map holds for a
\* key is drawn from CallerValues where the code first reads it.
KeyLists ==
    UNION {{m \in [1..n -> KeyNames] : \A i, j \in 1..n : i # j => m[i] # m[j]} :
           n \in 0..MaxKeys}

\* FillResult(success=False).
NewFillResult ==
    [success |-> FALSE, output_path |-> None, filled_fields |-> <<>>,
     failed_fields |-> <<>>, errors |-> <<>>, warnings |-> <<>>]

NoArgs == [keys |-> <<>>, flatten |-> FALSE, set_need_appearances |-> TRUE]

\* The check-box branch of _fill_fields: a bool and the listed spellings
\* become "/Yes" or "/Off", any other value is kept.
CheckboxValue(value) ==
    IF value.kind = "bool" THEN StrVal(IF value.b THEN "/Yes" ELSE "/Off")
    ELSE IF value.s \in {"true", "True", "1", "yes", "Yes"} THEN StrVal("/Yes")
    ELSE IF value.s \in {"false", "False", "0", "no", "No"} THEN StrVal("/Off")
    ELSE value

\* The value _fill_fields hands to the codec for a field.
PrepareValue(field_info, value) ==
    IF field_info.field_type = "checkbox" THEN CheckboxValue(value) ELSE value

\* The codec's text of a value (TextStringObject(value), NameObject(value)).
CodecStr(value) ==
    IF value.kind = "bool" THEN (IF value.b THEN "True" ELSE "False") ELSE value.s

\* Whether a widget annotation belongs to the field called name, as the
\* codec's update_page_form_field_values decides it.
CodecMatches(a, name) == a.kind \in {"widget", "kid"} /\ a.obj = name

\* The codec's update of one field dictionary: /V becomes the text; a
\* button field also gets /AS, the text if it names an appearance state and
\* /Off otherwise, and, with asValue, /V follows /AS.
CodecSetValue(fd, text, asValue) ==
    IF fd.FT = "/Btn"
    THEN LET as == IF text = fd.on THEN text ELSE "/Off"
         IN [fd EXCEPT !.V = IF asValue THEN as ELSE text, !.AS = as]
    ELSE [fd EXCEPT !.V = text]

\* writer.update_page_form_field_values(writer.pages[page_idx], {name: value})
\* over the remaining annotations of the page: [doc, raised].  An entry that
\* is no dictionary raises, what was updated before it stays updated.
RECURSIVE CodecUpdate(_, _, _, _, _)
CodecUpdate(w, rest, name, text, asValue) ==
    IF rest = <<>> THEN [doc |-> w, raised |-> FALSE]
    ELSE IF Head(rest).kind = "null" THEN [doc |-> w, raised |-> TRUE]
    ELSE IF CodecMatches(Head(rest), name)
    THEN CodecUpdate([w EXCEPT !.obj[name] = CodecSetValue(@, text, asValue)],
                     Tail(rest), name, text, asValue)
    ELSE CodecUpdate(w, Tail(rest), name, text, asValue)

\* _set_need_appearances creating the /AcroForm only.
SetNeedAppearancesNoFlag(w) == [w EXCEPT !.acroForm = TRUE]

\* _set_need_appearances: creates the /AcroForm if absent, sets the flag.
SetNeedAppearances(w) == [w EXCEPT !.acroForm = TRUE, !.needAppearances = TRUE]

\* The PdfWriter fill builds: the reader's pages, its /AcroForm if any.
NewWriter(d, set_need_appearances) ==
    LET w == [d EXCEPT !.enc = Unencrypted]
    IN IF set_need_appearances THEN SetNeedAppearances(w) ELSE w

\* The filter of _flatten_form dropping every annotation.
RECURSIVE DropAnnotations(_)
DropAnnotations(annots) ==
    IF annots = <<>> THEN <<>> ELSE DropAnnotations(Tail(annots))

\* The widgets of an annotation list dropped (the filter of _flatten_form).
RECURSIVE DropWidgets(_)
DropWidgets(annots) ==
    IF annots = <<>> THEN <<>>
    ELSE IF Head(annots).kind \in {"widget", "kid"} THEN DropWidgets(Tail(annots))
    ELSE <<Head(annots)>> \o DropWidgets(Tail(annots))

\* The page loop of _flatten_form from page i on: [doc, raised].  An entry
\* that is no dictionary raises: the loop ends there, this page and the
\* later ones are left as they were.
RECURSIVE FlattenPages(_, _)
FlattenPages(w, i) ==
    IF i > Len(w.pages) THEN [doc |-> w, raised |-> FALSE]
    ELSE IF ~w.pages[i].hasAnnots THEN FlattenPages(w, i + 1)
    ELSE IF \E j \in DOMAIN w.pages[i].annots : w.pages[i].annots[j].kind = "null"
    THEN [doc |-> w, raised |-> TRUE]
    ELSE LET new_annots == DropWidgets(w.pages[i].annots)
         IN FlattenPages(
                [w EXCEPT !.pages[i] =
                    IF new_annots # <<>> THEN Page(new_annots) ELSE NoAnnotsPage],
                i + 1)

\* _flatten_form: the /AcroForm is deleted, then the pages are filtered;
\* an exception is swallowed.
FlattenForm(w) ==
    FlattenPages([w EXCEPT !.acroForm = FALSE, !.needAppearances = FALSE,
                           !.xfa = NoXfa, !.table = {}], 1)

-----------------------------------------------------------------------------
(* ChineseFontManager: the font resolver and its class-level cache.        *)

\* Number of candidate font paths of the model (a prefix of the list).
MaxCandidates == 3

\* Number of threads that call the font resolver.
MaxThreads == 2

\* Number of calls of the font resolver one thread makes.
MaxCalls == 2

\* ChineseFontManager.CHINESE_FONT_PATHS as the source lists it.
AllFontPaths ==
    <<"/System/Library/Fonts/PingFang.ttc",
      "/System/Library/Fonts/STHeiti Light.ttc",
      "/System/Library/Fonts/STHeiti Medium.ttc",
      "/Library/Fonts/Arial Unicode.ttf",
      "/System/Library/Fonts/Supplemental/Songti.ttc",
      "/usr/share/fonts/truetype/droid/DroidSansFallbackFull.ttf",
      "/usr/share/fonts/opentype/noto/NotoSansCJK-Regular.ttc",
      "/usr/share/fonts/truetype/wqy/wqy-microhei.ttc",
      "/usr/share/fonts/truetype/arphic/uming.ttc",
      "C:/Windows/Fonts/msyh.ttc",
      "C:/Windows/Fonts/simsun.ttc",
      "C:/Windows/Fonts/simhei.ttf">>

\* The candidate paths the model searches, in priority order.
CHINESE_FONT_PATHS == SubSeq(AllFontPaths, 1, MaxCandidates)

Threads == 1..MaxThreads

\* A machine: the candidate files that exist (os.path.exists), whether
\* TTFont/registerFont accepts a font file, whether the CID font registers.
FontEnvs ==
    [existing : SUBSET Range(CHINESE_FONT_PATHS), ttfOk : BOOLEAN, cidOk : BOOLEAN]

NoFontEnv == [existing |-> {}, ttfOk |-> FALSE, cidOk |-> FALSE]

\* The first path of a list that exists, None if none does.
RECURSIVE FirstExisting(_, _)
FirstExisting(paths, existing) ==
    IF paths = <<>> THEN None
    ELSE IF Head(paths) \in existing THEN Head(paths)
    ELSE FirstExisting(Tail(paths), existing)

\* The last path of a list that exists, None if none does.
RECURSIVE LastExisting(_, _)
LastExisting(paths, existing) ==
    IF paths = <<>> THEN None
    ELSE IF paths[Len(paths)] \in existing THEN paths[Len(paths)]
    ELSE LastExisting(SubSeq(paths, 1, Len(paths) - 1), existing)

\* find_chinese_font taking the last existing candidate.
FindLastChineseFont(env) == LastExisting(CHINESE_FONT_PATHS, env.existing)

\* find_chinese_font: the first existing candidate, in list order.
FindChineseFont(env) == FirstExisting(CHINESE_FONT_PATHS, env.existing)

\* A thread outside get_default_chinese_font; rets: what its calls returned.
IdleThread == [pc |-> "idle", font_path |-> None, font_name |-> None, rets |-> <<>>]

\* The font manager as the class body leaves it, no thread running.
NoFontInit ==
    /\ fontEnv = NoFontEnv
    /\ default_font = None
    /\ registered_fonts = {}
    /\ thread = [t \in Threads |-> IdleThread]
    /\ registerCalls = <<>>
    /\ cacheWrites = <<>>

\* A thread returns name from get_default_chinese_font.
Returned(th, name) ==
    [th EXCEPT !.pc = "idle", !.font_path = None, !.font_name = None,
               !.rets = Append(@, name)]

\* get_default_chinese_font, its first statement: the cached name is
\* returned if there is one.
GetDefaultChineseFont(t) ==
    /\ thread[t].pc = "idle"
    /\ Len(thread[t].rets) < MaxCalls
    /\ thread' = [thread EXCEPT ![t] =
                     IF default_font # None THEN Returned(@, default_font)
                     ELSE [@ EXCEPT !.pc = "find"]]
    /\ UNCHANGED <<fontEnv, default_font, registered_fonts, registerCalls, cacheWrites>>
    /\ UNCHANGED <<fillVars, callVars, apiVars>>

\* font_path = cls.find_chinese_font(); without a path the CID font is next.
FindFont(t) ==
    /\ thread[t].pc = "find"
    /\ LET font_path == FindChineseFont(fontEnv)
       IN thread' = [thread EXCEPT ![t] =
                        IF font_path # None
                        THEN [@ EXCEPT !.pc = "register", !.font_path = font_path,
                                       !.font_name = "ChineseFont"]
                        ELSE [@ EXCEPT !.pc = "cid"]]
    /\ UNCHANGED <<fontEnv, default_font, registered_fonts, registerCalls, cacheWrites>>
    /\ UNCHANGED <<fillVars, callVars, apiVars>>

\* register_font, its test: a name already in _registered_fonts is not
\* registered again.
RegisterFontCheck(t) ==
    /\ thread[t].pc = "register"
    /\ thread' = [thread EXCEPT ![t].pc =
                     IF \E f \in registered_fonts : f.name = thread[t].font_name
                     THEN "setDefault" ELSE "ttf"]
    /\ UNCHANGED <<fontEnv, default_font, registered_fonts, registerCalls, cacheWrites>>
    /\ UNCHANGED <<fillVars, callVars, apiVars>>

\* register_font: pdfmetrics.registerFont(TTFont(font_name, font_path)).
\* When it raises register_font returns False and the CID font is next.
RegisterTTFont(t) ==
    /\ thread[t].pc = "ttf"
    /\ IF fontEnv.ttfOk
       THEN /\ registerCalls' = Append(registerCalls, thread[t].font_name)
            /\ thread' = [thread EXCEPT ![t].pc = "record"]
       ELSE /\ thread' = [thread EXCEPT ![t].pc = "cid"]
            /\ UNCHANGED registerCalls
    /\ UNCHANGED <<fontEnv, default_font, registered_fonts, cacheWrites>>
    /\ UNCHANGED <<fillVars, callVars, apiVars>>

\* register_font: cls._registered_fonts[font_name] = font_path.
RecordFont(t) ==
    /\ thread[t].pc = "record"
    /\ registered_fonts' =
          {f \in registered_fonts : f.name # thread[t].font_name}
          \cup {[name |-> thread[t].font_name, path |-> thread[t].font_path]}
    /\ thread' = [thread EXCEPT ![t].pc = "setDefault"]
    /\ UNCHANGED <<fontEnv, default_font, registerCalls, cacheWrites>>
    /\ UNCHANGED <<fillVars, callVars, apiVars>>

\* pdfmetrics.registerFont(UnicodeCIDFont('STSong-Light')); when it raises
\* Helvetica is what is left.
RegisterCIDFont(t) ==
    /\ thread[t].pc = "cid"
    /\ IF fontEnv.cidOk
       THEN /\ registerCalls' = Append(registerCalls, "STSong-Light")
            /\ thread' = [thread EXCEPT ![t].pc = "setDefault",
                                        ![t].font_name = "STSong-Light"]
       ELSE /\ thread' = [thread EXCEPT ![t].pc = "setDefault",
                                        ![t].font_name = "Helvetica"]
            /\ UNCHANGED registerCalls
    /\ UNCHANGED <<fontEnv, default_font, registered_fonts, cacheWrites>>
    /\ UNCHANGED <<fillVars, callVars, apiVars>>

\* cls._default_font = font_name; return font_name.
SetDefaultFont(t) ==
    /\ thread[t].pc = "setDefault"
    /\ default_font' = thread[t].font_name
    /\ cacheWrites' = Append(cacheWrites, thread[t].font_name)
    /\ thread' = [thread EXCEPT ![t] = Returned(@, thread[t].font_name)]
    /\ UNCHANGED <<fontEnv, registered_fonts, registerCalls>>
    /\ UNCHANGED <<fillVars, callVars, apiVars>>

-----------------------------------------------------------------------------
(* Helpers called on their own, each on an argument of a bounded set.      *)

\* Largest magnitude of the /P values the permission decoding is given.
MaxP == 511

\* _check_permissions on an unencrypted document, on an encrypted one
\* whose /P is missing or no integer, and on every /P of -MaxP-1..MaxP.
PermissionCalls ==
    {[fn |-> "_check_permissions", arg |-> enc] :
        enc \in {Unencrypted, EncryptedNoP} \cup {Encrypted(p) : p \in (0 - MaxP - 1)..MaxP}}

\* The /MaxLen of the text field the value preparation is given.
FieldMaxLen == 3

\* A text field with /MaxLen.
MaxLenField ==
    [FieldDict("/Tx", 0, None, None, <<0, 0, 100, 20>>) EXCEPT !.MaxLen = <<FieldMaxLen>>]

\* The strings a caller gives the value preparation: the check-box
\* spellings in several cases, and texts of several lengths.
PrepareStrings ==
    {"true", "True", "TRUE", "1", "yes", "Yes", "YES",
     "false", "False", "FALSE", "0", "no", "No", "nO",
     "", "x", "abc", "abcd", "abcdefgh"}

\* The value preparation of _fill_fields on a text field, a check box and
\* a text field with /MaxLen, for booleans and strings.
PrepareCalls ==
    {[fn |-> "_fill_fields", arg |-> [field_info |-> fi, value |-> v]] :
        fi \in {ParseField("t", FieldCatalogue["t"]), ParseField("c", FieldCatalogue["c"]),
                ParseField("m", MaxLenField)},
        v \in {BoolVal(TRUE), BoolVal(FALSE)} \cup {StrVal(s) : s \in PrepareStrings}}

\* Largest length of the texts contains_chinese is given.
MaxTextLen == 2

\* The characters of those texts, as code points: a letter and a digit,
\* general punctuation and symbols (U+2000, U+2001, U+20AC, U+2A6D,
\* U+2A6E), and the ends and neighbours of the ranges U+3400..U+4DBF,
\* U+4E00..U+9FFF and U+20000..U+2A6DF.
TextChars ==
    {97, 49, 8192, 8193, 8364, 10861, 10862, 13311, 13312, 19903, 19904,
     19968, 20013, 40959, 40960, 131072, 173791, 173792}

\* A Python str is the sequence of its code points.
Texts == UNION {[1..n -> TextChars] : n \in 0..MaxTextLen}

ChineseCalls == {[fn |-> "contains_chinese", arg |-> text] : text \in Texts}

\* Python's a <= b on str: the order of the code points, a proper prefix
\* being smaller.
RECURSIVE StrLe(_, _)
StrLe(a, b) ==
    IF a = <<>> THEN TRUE
    ELSE IF b = <<>> THEN FALSE
    ELSE IF Head(a) < Head(b) THEN TRUE
    ELSE IF Head(a) > Head(b) THEN FALSE
    ELSE StrLe(Tail(a), Tail(b))

\* contains_chinese.  The literals '\u4e00', '\u9fff', '\u3400', '\u4dbf'
\* are one character each; '\u20000' and '\u2a6df' are two characters each
\* (\u takes four hexadecimal digits): U+2000 "0" and U+2A6D "f".
RECURSIVE ContainsChinese(_)
ContainsChinese(text) ==
    IF text = <<>> THEN FALSE
    ELSE LET char == <<Head(text)>>
         IN IF StrLe(<<19968>>, char) /\ StrLe(char, <<40959>>) THEN TRUE
            ELSE IF StrLe(<<13312>>, char) /\ StrLe(char, <<19903>>) THEN TRUE
            ELSE IF StrLe(<<8192, 48>>, char) /\ StrLe(char, <<10861, 102>>) THEN TRUE
            ELSE ContainsChinese(Tail(text))

\* ChineseFontManager.contains_chinese(text) called on its own.
CallContainsChinese ==
    /\ call.fn = "contains_chinese"
    /\ ret = <<>>
    /\ ret' = <<ContainsChinese(call.arg)>>
    /\ UNCHANGED <<call, fillVars, fontVars, apiVars>>

\* _check_permissions called on a document with the given encryption.
CallCheckPermissions ==
    /\ call.fn = "_check_permissions"
    /\ ret = <<>>
    /\ ret' = <<CheckPermissions(Doc(call.arg, TRUE, NoXfa, {}, <<>>))>>
    /\ UNCHANGED <<call, fillVars, fontVars, apiVars>>

-----------------------------------------------------------------------------
(* The state machine: fill_pdf_form(pdf_path, output_path, field_values,   *)
(* ...) constructs a PDFFormFiller and calls fill; analyze may be called   *)
(* on the filler before.                                                   *)

\* No request to the forms API.
NoOutcome == [raised |-> FALSE, success |-> FALSE, errors |-> <<>>, file |-> "absent"]

NoRequest ==
    [pc |-> "idle", kind |-> "none", doc |-> NoDoc, exists |-> FALSE,
     loadable |-> FALSE, new_file_id |-> <<>>, output_file |-> "absent",
     engine |-> NoOutcome, removed |-> FALSE, status |-> 0]

NoApiInit == api = NoRequest

\* No fill call has begun.
NoFillInit ==
    /\ pc = "start"
    /\ reader = NoDoc
    /\ analysis = NoAnalysis
    /\ args = NoArgs
    /\ writer = NoDoc
    /\ todo = <<>>
    /\ filled = <<>>
    /\ failed = <<>>
    /\ written = <<>>
    /\ result = NewFillResult
    /\ outcome = "none"
    /\ fatal = "none"
    /\ flattenErr = FALSE
    /\ output = NoDoc

\* No helper is called on its own.
NoCall == [fn |-> "none"]

NoCallInit ==
    /\ call = NoCall
    /\ ret = <<>>

Init ==
    /\ NoFillInit
    /\ NoCallInit
    /\ NoFontInit
    /\ NoApiInit

\* PDFFormFiller.__init__ / _load_pdf on a loadable path.
LoadPdf ==
    /\ pc = "start"
    /\ \E d \in Docs : reader' = d
    /\ pc' = "loaded"
    /\ UNCHANGED <<analysis, args, writer, todo, filled, failed, written,
                   result, outcome, fatal, flattenErr, output>>
    /\ UNCHANGED <<callVars, fontVars, apiVars>>

\* _load_pdf swallowing the codec's exception: the filler exists, unloaded.
LoadPdfFailsSwallowed ==
    /\ pc = "start"
    /\ pc' = "loaded"
    /\ fatal' = "load"
    /\ UNCHANGED <<reader, analysis, args, writer, todo, filled, failed,
                   written, result, outcome, flattenErr, output>>
    /\ UNCHANGED <<callVars, fontVars, apiVars>>

\* PDFFormFiller.__init__ / _load_pdf on a path the codec cannot open:
\* ValueError is raised, through fill_pdf_form, to the caller.
LoadPdfFails ==
    /\ pc = "start"
    /\ pc' = "done"
    /\ outcome' = "raised"
    /\ fatal' = "load"
    /\ UNCHANGED <<reader, analysis, args, writer, todo, filled, failed,
                   written, result, flattenErr, output>>
    /\ UNCHANGED <<callVars, fontVars, apiVars>>

\* PDFFormFiller.analyze, called before fill.
AnalyzeCall ==
    /\ pc = "loaded"
    /\ analysis = NoAnalysis
    /\ analysis' = Analyze(reader)
    /\ UNCHANGED <<pc, reader, args, writer, todo, filled, failed, written,
                   result, outcome, fatal, flattenErr, output>>
    /\ UNCHANGED <<callVars, fontVars, apiVars>>

\* fill, up to the permission check: the form is analysed if it was not,
\* and a document that forbids form filling ends the call.
FillBegin ==
    /\ pc = "loaded"
    /\ \E keys \in KeyLists, fl \in BOOLEAN, sna \in BOOLEAN :
          args' = [keys |-> keys, flatten |-> fl, set_need_appearances |-> sna]
    /\ analysis' = IF analysis = NoAnalysis THEN Analyze(reader) ELSE analysis
    /\ IF ~analysis'.permissions.can_fill_forms
       THEN /\ result' = [NewFillResult EXCEPT !.errors = <<"form filling forbidden">>]
            /\ pc' = "done"
            /\ outcome' = "returned"
            /\ fatal' = "permission"
       ELSE /\ result' = [NewFillResult EXCEPT !.warnings =
                             IF analysis'.form_type = "xfa_dynamic"
                             THEN <<"dynamic XFA">> ELSE <<>>]
            /\ pc' = "writer"
            /\ UNCHANGED <<outcome, fatal>>
    /\ UNCHANGED <<reader, writer, todo, filled, failed, written, flattenErr,
                   output>>
    /\ UNCHANGED <<callVars, fontVars, apiVars>>

\* fill: the PdfWriter is built from the reader's pages and /AcroForm, the
\* NeedAppearances flag is set, and _fill_fields starts.
CreateWriter ==
    /\ pc = "writer"
    /\ writer' = NewWriter(reader, args.set_need_appearances)
    /\ todo' = args.keys
    /\ filled' = <<>>
    /\ failed' = <<>>
    /\ pc' = "fields"
    /\ UNCHANGED <<reader, analysis, args, written, result, outcome, fatal,
                   flattenErr, output>>
    /\ UNCHANGED <<callVars, fontVars, apiVars>>

\* Unfillable without the read-only check.
UnfillableIgnoringReadonly(fields, field_name) == field_name \notin DOMAIN fields

\* _fill_fields: a key the analysis does not know, or whose field is
\* read-only, is not written.
Unfillable(fields, field_name) ==
    \/ field_name \notin DOMAIN fields
    \/ fields[field_name].is_readonly

\* An except clause that does not record the key.
OnFieldExceptionLost(failedList, field_name) == failedList

\* _fill_fields: the except clause of an iteration.
OnFieldException(failedList, field_name) == Append(failedList, field_name)

\* One iteration of the loop of _fill_fields.  value: the value of the map
\* for the key; codecFails: the codec's update raises for a reason of its
\* own; asValue: the codec's build lets /V of a button field follow /AS.
FillField ==
    /\ pc = "fields"
    /\ todo # <<>>
    /\ LET field_name == Head(todo)
       IN IF Unfillable(analysis.fields, field_name)
          THEN /\ failed' = Append(failed, field_name)
               /\ UNCHANGED <<filled, writer, written>>
          ELSE \E value \in CallerValues, codecFails \in BOOLEAN, asValue \in BOOLEAN :
                 LET field_info == analysis.fields[field_name]
                     page_idx == field_info.page_index
                     text == CodecStr(PrepareValue(field_info, value))
                 IN /\ asValue => writer.obj[field_name].FT = "/Btn"
                    /\ written' = Append(written,
                          [name |-> field_name, value |-> value, text |-> text])
                    /\ IF codecFails \/ page_idx + 1 > Len(writer.pages)
                       THEN /\ failed' = OnFieldException(failed, field_name)
                            /\ UNCHANGED <<filled, writer>>
                       ELSE LET upd == CodecUpdate(writer,
                                          writer.pages[page_idx + 1].annots,
                                          field_name, text, asValue)
                            IN /\ writer' = upd.doc
                               /\ IF upd.raised
                                  THEN /\ failed' = OnFieldException(failed, field_name)
                                       /\ UNCHANGED filled
                                  ELSE /\ filled' = Append(filled, field_name)
                                       /\ UNCHANGED failed
    /\ todo' = Tail(todo)
    /\ UNCHANGED <<pc, reader, analysis, args, result, outcome, fatal,
                   flattenErr, output>>
    /\ UNCHANGED <<callVars, fontVars, apiVars>>

\* FillFieldsDone with the two returned lists taken in the wrong order.
FillFieldsDoneSwapped ==
    /\ pc = "fields"
    /\ todo = <<>>
    /\ result' = [result EXCEPT !.filled_fields = failed, !.failed_fields = filled]
    /\ pc' = "xfa"
    /\ UNCHANGED <<reader, analysis, args, writer, todo, filled, failed, written,
                   outcome, fatal, flattenErr, output>>
    /\ UNCHANGED <<callVars, fontVars, apiVars>>

\* _fill_fields returns: fill stores the two lists in the result.
FillFieldsDone ==
    /\ pc = "fields"
    /\ todo = <<>>
    /\ result' = [result EXCEPT !.filled_fields = filled, !.failed_fields = failed]
    /\ pc' = "xfa"
    /\ UNCHANGED <<reader, analysis, args, writer, todo, filled, failed, written,
                   outcome, fatal, flattenErr, output>>
    /\ UNCHANGED <<callVars, fontVars, apiVars>>

\* fill: _sync_xfa_data when the analysis found XFA that is not dynamic;
\* its exception becomes a warning.  The XFA text it builds is discarded.
SyncXfa ==
    /\ pc = "xfa"
    /\ IF analysis.has_xfa /\ analysis.form_type # "xfa_dynamic"
          /\ analysis.xfa_data # <<>> /\ args.keys # <<>>
       THEN \E raises \in BOOLEAN :
               result' = [result EXCEPT !.warnings =
                             IF raises THEN Append(@, "XFA sync failed") ELSE @]
       ELSE UNCHANGED result
    /\ pc' = "flatten"
    /\ UNCHANGED <<reader, analysis, args, writer, todo, filled, failed, written,
                   outcome, fatal, flattenErr, output>>
    /\ UNCHANGED <<callVars, fontVars, apiVars>>

\* fill: _flatten_form when flatten was asked for.
Flatten ==
    /\ pc = "flatten"
    /\ IF args.flatten
       THEN /\ writer' = FlattenForm(writer).doc
            /\ flattenErr' = FlattenForm(writer).raised
       ELSE UNCHANGED <<writer, flattenErr>>
    /\ pc' = "save"
    /\ UNCHANGED <<reader, analysis, args, todo, filled, failed, written, result,
                   outcome, fatal, output>>
    /\ UNCHANGED <<callVars, fontVars, apiVars>>

\* fill writing the file before the flatten step.
SaveBeforeFlatten ==
    /\ pc = "flatten"
    /\ output' = writer
    /\ result' = [result EXCEPT !.success = TRUE, !.output_path = "output_path"]
    /\ pc' = "done"
    /\ outcome' = "returned"
    /\ UNCHANGED <<reader, analysis, args, writer, todo, filled, failed, written,
                   fatal, flattenErr>>
    /\ UNCHANGED <<callVars, fontVars, apiVars>>

\* SaveMode.
SaveModes == {"incremental", "full_rewrite"}

\* The save section of fill leaving the output empty in incremental mode.
SavedOutputFullRewriteOnly(save_mode, input_exists, w) ==
    IF save_mode = "incremental" /\ input_exists THEN NoDoc ELSE w

\* The save section of fill: what a successful save puts at output_path.
\* In incremental mode, when pdf_path exists, the input file is opened for
\* reading and never read; both branches call writer.write(output_file).
SavedOutput(save_mode, input_exists, w) ==
    IF save_mode = "incremental" /\ input_exists THEN w ELSE w

\* fill: writer.write to output_path succeeds.
Save ==
    /\ pc = "save"
    /\ \E save_mode \in SaveModes :
          output' = SavedOutput(save_mode, TRUE, writer)
    /\ result' = [result EXCEPT !.success = TRUE, !.output_path = "output_path"]
    /\ pc' = "done"
    /\ outcome' = "returned"
    /\ UNCHANGED <<reader, analysis, args, writer, todo, filled, failed, written,
                   fatal, flattenErr>>
    /\ UNCHANGED <<callVars, fontVars, apiVars>>

\* fill swallowing the exception of writer.write without recording it.
SaveFailsWithoutError ==
    /\ pc = "save"
    /\ pc' = "done"
    /\ outcome' = "returned"
    /\ fatal' = "serialization"
    /\ UNCHANGED <<reader, analysis, args, writer, todo, filled, failed, written,
                   result, flattenErr, output>>
    /\ UNCHANGED <<callVars, fontVars, apiVars>>

\* fill: writer.write raises; the exception becomes an error of the result.
SaveFails ==
    /\ pc = "save"
    /\ result' = [result EXCEPT !.errors = Append(@, "fill failed")]
    /\ pc' = "done"
    /\ outcome' = "returned"
    /\ fatal' = "serialization"
    /\ UNCHANGED <<reader, analysis, args, writer, todo, filled, failed, written,
                   flattenErr, output>>
    /\ UNCHANGED <<callVars, fontVars, apiVars>>

\* analyze_pdf_form on the document a successful fill wrote.
ReAnalysis == Analyze(output)

Next ==
    \/ LoadPdf
    \/ LoadPdfFails
    \/ AnalyzeCall
    \/ FillBegin
    \/ CreateWriter
    \/ FillField
    \/ FillFieldsDone
    \/ SyncXfa
    \/ Flatten
    \/ Save
    \/ SaveFails

Spec == Init /\ [][Next]_vars

\* form_handler._get_field_type: the classification of the fallback
\* listing _get_form_fields_simple.
SimpleGetFieldType(fd) ==
    IF fd.FT = "/Tx" THEN "text"
    ELSE IF fd.FT = "/Btn" THEN "checkbox"
    ELSE IF fd.FT = "/Ch" THEN "dropdown"
    ELSE IF fd.FT = "/Sig" THEN "signature"
    ELSE "unknown"

\* The "type" get_form_fields reports for a field: that of the analysis,
\* unless the unpacking of the rect into four numbers raises, and then
\* that of _get_form_fields_simple (which reads rect[0..3] only).
GetFormFieldsType(fd) ==
    IF fd.Rect = <<>> \/ Len(fd.Rect) = 4
    THEN GetFieldType(fd)
    ELSE SimpleGetFieldType(fd)

\* The /FT entries of the classified dictionaries (None: no /FT), and
\* their /Ff: the sums of the read-only, radio, pushbutton and combo bits.
FieldTypeNames == {"/Tx", "/Btn", "/Ch", "/Sig", "/Xx", None}

FieldFlagValues ==
    {a + b + c + e : a \in {0, 1}, b \in {0, 32768}, c \in {0, 65536}, e \in {0, 131072}}

\* The classified dictionaries: without /Rect, with a /Rect of four
\* numbers, and with a malformed /Rect of five numbers.
TypedFields ==
    {FieldDict(ft, ff, None, None, rect) :
        ft \in FieldTypeNames, ff \in FieldFlagValues,
        rect \in {<<>>, <<0, 0, 100, 20>>, <<0, 0, 100, 20, 0>>}}

FieldTypeCalls ==
    {[fn |-> f, arg |-> fd] : f \in {"_get_field_type", "get_form_fields"}, fd \in TypedFields}

\* PDFFormFiller._get_field_type called on a field dictionary.
CallGetFieldType ==
    /\ call.fn = "_get_field_type"
    /\ ret = <<>>
    /\ ret' = <<GetFieldType(call.arg)>>
    /\ UNCHANGED <<call, fillVars, fontVars, apiVars>>

\* get_form_fields called on a document with one field: the reported type.
CallGetFormFields ==
    /\ call.fn = "get_form_fields"
    /\ ret = <<>>
    /\ ret' = <<GetFormFieldsType(call.arg)>>
    /\ UNCHANGED <<call, fillVars, fontVars, apiVars>>

\* The dictionaries name resolution is called on: a field named t, a
\* child named c of a parent named p, a widget without /T under p, a
\* child c of p under a grandparent g, and one with neither /T nor /Parent.
ParentP == NamedDict(<<"p">>, <<>>)

NamedDicts ==
    {NamedDict(<<"t">>, <<>>), NamedDict(<<"c">>, <<ParentP>>),
     NamedDict(<<>>, <<ParentP>>),
     NamedDict(<<"c">>, <<NamedDict(<<"p">>, <<NamedDict(<<"g">>, <<>>)>>)>>),
     NamedDict(<<>>, <<>>)}

NameCalls == {[fn |-> "_get_field_name", arg |-> nd] : nd \in NamedDicts}

\* _get_field_name called on a dictionary.
CallGetFieldName ==
    /\ call.fn = "_get_field_name"
    /\ ret = <<>>
    /\ ret' = <<GetFieldName(call.arg)>>
    /\ UNCHANGED <<call, fillVars, fontVars, apiVars>>

\* The entries of the widgets and of the table's field dictionaries in the
\* extraction calls: a text field with and without /Rect, and a read-only
\* radio group.
TextFieldA == FieldDict("/Tx", 0, "a", None, <<0, 0, 100, 20>>)

ExtractFieldDicts ==
    {TextFieldA, [TextFieldA EXCEPT !.Rect = <<>>],
     FieldDict("/Btn", 32769, "/b", None, <<5, 5, 15, 15>>)}

ExtractWidgets ==
    {OwnWidget(nd.T, nd.Parent, fd) :
        nd \in NamedDicts \ {NamedDict(<<>>, <<>>)}, fd \in ExtractFieldDicts}

\* Page lists with one widget on every page.
ExtractPageLists ==
    UNION {[1..n -> {Page(<<w>>) : w \in ExtractWidgets}] : n \in 1..MaxPages}

\* A document whose field table has the given names, all with the same
\* entries.
ExtractDoc(table, fd, pages) ==
    [Doc(Unencrypted, TRUE, NoXfa, table, pages) EXCEPT !.obj = [n \in table |-> fd]]

\* The documents of the extraction calls: an empty table, or a table with
\* t, p.c or p, the entry with or without /Rect.
ExtractDocs ==
    {ExtractDoc(table, fd, pages) :
        table \in {{"t"}, {"p.c"}, {"p"}},
        fd \in {TextFieldA, [TextFieldA EXCEPT !.Rect = <<>>]},
        pages \in ExtractPageLists}
    \cup {ExtractDoc({}, TextFieldA, pages) : pages \in ExtractPageLists}

ExtractCalls == {[fn |-> "_extract_fields", arg |-> d] : d \in ExtractDocs}

\* _extract_fields called on a document.
CallExtractFields ==
    /\ call.fn = "_extract_fields"
    /\ ret = <<>>
    /\ ret' = <<ExtractFields(call.arg)>>
    /\ UNCHANGED <<call, fillVars, fontVars, apiVars>>

\* The /XFA entries of the detection calls: those of the input documents,
\* no entry, arrays of odd length, with a label at a stream position, with
\* streams at the label positions, and entries with a stream that cannot
\* be read.
XfaCallEntries ==
    XfaEntries \cup
    {NoXfa, XfaArray(<<XfaLabel>>), XfaArray(<<XfaLabel, XfaLabel>>),
     XfaArray(<<XfaStream(<<"a">>), XfaStream(<<"b">>), XfaStream(<<"c">>)>>),
     XfaArray(<<XfaLabel, XfaStream(<<"a">>), XfaLabel, XfaBrokenStream>>),
     XfaArray(<<XfaBrokenStream, XfaStream(<<"a">>)>>),
     XfaSingle(<<>>), [kind |-> "stream", items |-> <<XfaBrokenStream>>]}

XfaCalls ==
    {[fn |-> "_detect_xfa", arg |-> Doc(Unencrypted, acro, xfa, {}, <<>>)] :
        acro \in BOOLEAN, xfa \in XfaCallEntries}

\* _detect_xfa called on a document.
CallDetectXfa ==
    /\ call.fn = "_detect_xfa"
    /\ ret = <<>>
    /\ ret' = <<DetectXfa(call.arg)>>
    /\ UNCHANGED <<call, fillVars, fontVars, apiVars>>

\* The save section of fill called in either mode, pdf_path existing or
\* not, on the writer made from a document and the result so far.
SaveCalls ==
    {[fn |-> "fill.save",
      arg |-> [save_mode |-> m, input_exists |-> e, writer |-> NewWriter(d, TRUE),
               result |-> [NewFillResult EXCEPT !.filled_fields = ff]]] :
        m \in SaveModes, e \in BOOLEAN, d \in EncryptedDocs \cup NeedAppearancesDocs,
        ff \in {<<>>, <<"t">>}}

\* What the save section returns and writes when the write succeeds, and
\* when an open or the write raises (nothing written is <<>>).
SaveSucceeded(arg) ==
    [result |-> [arg.result EXCEPT !.success = TRUE, !.output_path = "output_path"],
     output |-> <<SavedOutput(arg.save_mode, arg.input_exists, arg.writer)>>]

SaveFailed(arg) ==
    [result |-> [arg.result EXCEPT !.errors = Append(@, "fill failed")],
     output |-> <<>>]

CallSave ==
    /\ call.fn = "fill.save"
    /\ ret = <<>>
    /\ ret' = <<SaveSucceeded(call.arg)>>
    /\ UNCHANGED <<call, fillVars, fontVars, apiVars>>

CallSaveFails ==
    /\ call.fn = "fill.save"
    /\ ret = <<>>
    /\ ret' = <<SaveFailed(call.arg)>>
    /\ UNCHANGED <<call, fillVars, fontVars, apiVars>>

\* The helper calls of the model.
Calls ==
    PermissionCalls \cup PrepareCalls \cup ChineseCalls \cup FieldTypeCalls
    \cup NameCalls \cup ExtractCalls \cup XfaCalls \cup SaveCalls

CallInit ==
    /\ NoFillInit
    /\ NoFontInit
    /\ NoApiInit
    /\ call \in Calls
    /\ ret = <<>>

\* One iteration of _fill_fields for a fillable field, up to the codec
\* call: the text handed to the codec.  The iteration records no warning
\* (_fill_fields returns the two lists only).
CallPrepareValue ==
    /\ call.fn = "_fill_fields"
    /\ ret = <<>>
    /\ ret' = <<[text |-> CodecStr(PrepareValue(call.arg.field_info, call.arg.value)),
                 warnings |-> <<>>]>>
    /\ UNCHANGED <<call, fillVars, fontVars, apiVars>>

CallNext ==
    \/ CallCheckPermissions
    \/ CallPrepareValue
    \/ CallContainsChinese
    \/ CallGetFieldType
    \/ CallGetFormFields
    \/ CallGetFieldName
    \/ CallExtractFields
    \/ CallDetectXfa
    \/ CallSave
    \/ CallSaveFails

CallSpec == CallInit /\ [][CallNext]_vars

\* The font manager used by concurrent threads on one machine.
FontInit ==
    /\ NoFillInit
    /\ NoCallInit
    /\ NoApiInit
    /\ fontEnv \in FontEnvs
    /\ default_font = None
    /\ registered_fonts = {}
    /\ thread = [t \in Threads |-> IdleThread]
    /\ registerCalls = <<>>
    /\ cacheWrites = <<>>

FontNext ==
    \E t \in Threads :
        \/ GetDefaultChineseFont(t)
        \/ FindFont(t)
        \/ RegisterFontCheck(t)
        \/ RegisterTTFont(t)
        \/ RecordFont(t)
        \/ RegisterCIDFont(t)
        \/ SetDefaultFont(t)

FontSpec == FontInit /\ [][FontNext]_vars

\* The machine changes under the running process: the candidate font
\* files are removed.
RemoveFontFiles ==
    /\ fontEnv.existing # {}
    /\ fontEnv' = [fontEnv EXCEPT !.existing = {}]
    /\ UNCHANGED <<default_font, registered_fonts, thread, registerCalls, cacheWrites>>
    /\ UNCHANGED <<fillVars, callVars, apiVars>>

FontChangeNext ==
    \/ FontNext
    \/ RemoveFontFiles

\* The font manager used by concurrent threads on a machine whose font
\* files may be removed.
FontChangeSpec == FontInit /\ [][FontChangeNext]_vars

-----------------------------------------------------------------------------
(* The forms API of backend/api/forms.py: the fill and flatten endpoints.  *)
(* The file at the freshly generated output path is "absent", "partial"    *)
(* (created by open(output_path, "wb"), the write having raised) or        *)
(* "complete".                                                             *)

\* The documents of the requests.
ApiDocs == EncryptedDocs \cup NeedAppearancesDocs

\* check_form_permissions: the permissions of the analysis; every
\* capability when analyze_pdf_form raises.
CheckFormPermissions(d, loadable) ==
    IF loadable THEN Analyze(d).permissions ELSE AllPermissions

\* How a call of fill_pdf_form may end, and the file it leaves: the
\* constructor raises; fill returns the permission error; an exception in
\* fill's try block before the output is opened, at the open, or at the
\* write; or success.
EngineOutcomes(d, loadable) ==
    IF ~loadable
    THEN {[raised |-> TRUE, success |-> FALSE, errors |-> <<>>, file |-> "absent"]}
    ELSE IF ~Analyze(d).permissions.can_fill_forms
    THEN {[raised |-> FALSE, success |-> FALSE,
           errors |-> <<"form filling forbidden">>, file |-> "absent"]}
    ELSE {[raised |-> FALSE, success |-> FALSE, errors |-> <<"fill failed">>,
           file |-> f] : f \in {"absent", "partial"}}
         \cup {[raised |-> FALSE, success |-> TRUE, errors |-> <<>>,
                file |-> "complete"]}

\* A request arrives for an uploaded file that exists or not and that the
\* codec can load or not.
ApiInit ==
    /\ NoFillInit
    /\ NoCallInit
    /\ NoFontInit
    /\ \E kind \in {"fill", "flatten"}, d \in ApiDocs, exists \in BOOLEAN,
          loadable \in BOOLEAN :
          api = [NoRequest EXCEPT !.pc = "received", !.kind = kind, !.doc = d,
                                  !.exists = exists, !.loadable = loadable]

\* fill_pdf_form (endpoint), up to the permission check: 404 for a missing
\* file, 403 for a document that forbids form filling.
ApiFillCheck ==
    /\ api.pc = "received"
    /\ api.kind = "fill"
    /\ api' = IF ~api.exists
              THEN [api EXCEPT !.pc = "responded", !.status = 404]
              ELSE IF ~CheckFormPermissions(api.doc, api.loadable).can_fill_forms
              THEN [api EXCEPT !.pc = "responded", !.status = 403]
              ELSE [api EXCEPT !.pc = "permitted"]
    /\ UNCHANGED <<fillVars, callVars, fontVars>>

\* fill_pdf_form (endpoint): the output id is generated and
\* fill_form_fields_advanced is called; an exception it raises leaves the
\* handler.
ApiFillCall ==
    /\ api.pc = "permitted"
    /\ \E o \in EngineOutcomes(api.doc, api.loadable) :
          api' = IF o.raised
                 THEN [api EXCEPT !.pc = "responded", !.new_file_id = <<"new_file_id">>,
                                  !.output_file = o.file, !.status = 500]
                 ELSE [api EXCEPT !.pc = "called", !.new_file_id = <<"new_file_id">>,
                                  !.output_file = o.file, !.engine = o]
    /\ UNCHANGED <<fillVars, callVars, fontVars>>

\* The fill endpoint answering without removing the output of a failed call.
ApiFillRespondKeepingFile ==
    /\ api.pc = "called"
    /\ api.kind = "fill"
    /\ api' = IF ~api.engine.success
              THEN [api EXCEPT !.pc = "responded", !.status = 500]
              ELSE [api EXCEPT !.pc = "responded", !.status = 200]
    /\ UNCHANGED <<fillVars, callVars, fontVars>>

\* fill_pdf_form (endpoint), after the call: a failed result removes the
\* file at the output path if there is one and answers 500.
ApiFillRespond ==
    /\ api.pc = "called"
    /\ api.kind = "fill"
    /\ api' = IF ~api.engine.success
              THEN [api EXCEPT !.pc = "responded", !.status = 500,
                               !.removed = (api.output_file # "absent"),
                               !.output_file = "absent"]
              ELSE [api EXCEPT !.pc = "responded", !.status = 200]
    /\ UNCHANGED <<fillVars, callVars, fontVars>>

\* flatten_pdf_form, up to the return of flatten_pdf: 404 for a missing
\* file; else the output id is generated and flatten_pdf called, which
\* turns an exception into False.
ApiFlattenCall ==
    /\ api.pc = "received"
    /\ api.kind = "flatten"
    /\ IF ~api.exists
       THEN api' = [api EXCEPT !.pc = "responded", !.status = 404]
       ELSE \E o \in EngineOutcomes(api.doc, api.loadable) :
               api' = [api EXCEPT !.pc = "called", !.new_file_id = <<"new_file_id">>,
                                  !.output_file = o.file,
                                  !.engine = [o EXCEPT !.raised = FALSE]]
    /\ UNCHANGED <<fillVars, callVars, fontVars>>

\* flatten_pdf_form, after the call.
ApiFlattenRespond ==
    /\ api.pc = "called"
    /\ api.kind = "flatten"
    /\ api' = IF ~api.engine.success
              THEN [api EXCEPT !.pc = "responded", !.status = 500,
                               !.removed = (api.output_file # "absent"),
                               !.output_file = "absent"]
              ELSE [api EXCEPT !.pc = "responded", !.status = 200]
    /\ UNCHANGED <<fillVars, callVars, fontVars>>

ApiNext ==
    \/ ApiFillCheck
    \/ ApiFillCall
    \/ ApiFillRespond
    \/ ApiFlattenCall
    \/ ApiFlattenRespond

ApiSpec == ApiInit /\ [][ApiNext]_vars

-----------------------------------------------------------------------------
(* Properties.                                                             *)

\* The call is in or past _fill_fields (it passed the permission check and
\* built its writer).
InOrPastFields ==
    \/ pc \in {"fields", "xfa", "flatten", "save"}
    \/ pc = "done" /\ fatal \in {"none", "serialization"}

\* The keys of field_values the loop of _fill_fields has iterated.
Processed == SubSeq(args.keys, 1, Len(args.keys) - Len(todo))

\* C1: a per-field failure (unknown name, read-only field, exception while
\* writing the field) never aborts the batch: the keys are processed in
\* caller order, each processed key is in exactly one of filled and failed,
\* both lists keep the caller's order, once the loop is left every key has
\* been processed and the lists are those of the result, and a call that
\* meets no fatal error returns success = true.  In particular the map
\* {unknownField: x} gives failed = [unknownField], filled = [], success.
C1_PerFieldFailureNeverAborts ==
    /\ InOrPastFields =>
          /\ todo = SubSeq(args.keys, Len(Processed) + 1, Len(args.keys))
          /\ \A k \in Range(Processed) :
                (k \in Range(filled)) # (k \in Range(failed))
          /\ filled = SelectSeq(Processed, LAMBDA k : k \in Range(filled))
          /\ failed = SelectSeq(Processed, LAMBDA k : k \in Range(failed))
    /\ InOrPastFields /\ pc # "fields" =>
          /\ todo = <<>>
          /\ result.filled_fields = filled
          /\ result.failed_fields = failed
    /\ pc = "done" /\ fatal = "none" =>
          /\ outcome = "returned"
          /\ result.success
          /\ args.keys = <<"unknownField">> =>
                result.failed_fields = <<"unknownField">> /\ result.filled_fields = <<>>

\* C1 witness: a call of two keys returned success although writing its
\* first key raised, and its second key was filled.
C1_Witness ==
    /\ pc = "done"
    /\ result.success
    /\ Len(args.keys) = 2
    /\ \E i \in DOMAIN written : written[i].name = args.keys[1]
    /\ result.failed_fields = <<args.keys[1]>>
    /\ result.filled_fields = <<args.keys[2]>>

\* C2: for an encrypted document whose /P has the fill-forms bit (256)
\* clear, the analysis has can_fill_forms = false and fill returns
\* success = false with the permission error before anything else: no
\* writer is built, no field is touched, no output is written.
C2_FillDeniedWithoutFillFormsBit ==
    reader.enc.encrypted /\ reader.enc.hasP /\ (reader.enc.P \div 256) % 2 = 0 =>
        /\ analysis # NoAnalysis => ~analysis.permissions.can_fill_forms
        /\ pc \in {"loaded", "done"}
        /\ pc = "done" =>
              /\ outcome = "returned"
              /\ ~result.success
              /\ result.errors = <<"form filling forbidden">>
              /\ result.output_path = None
              /\ result.filled_fields = <<>> /\ result.failed_fields = <<>>
        /\ filled = <<>> /\ failed = <<>> /\ written = <<>>
        /\ writer = NoDoc
        /\ output = NoDoc

\* C2 witness: fill was refused on the document whose /P is -3904, for a
\* call that asked for two fields.
C2_Witness ==
    /\ pc = "done"
    /\ reader.enc.encrypted /\ reader.enc.hasP /\ reader.enc.P = -3904
    /\ Len(args.keys) = 2
    /\ fatal = "permission"

\* C3 as claimed: every name of filledFields or failedFields is a key of
\* the field map of the analysis used for the fill.
C3_ReportedNamesAreAnalysisKeys ==
    pc = "done" /\ outcome = "returned" =>
        Range(result.filled_fields) \cup Range(result.failed_fields)
            \subseteq DOMAIN analysis.fields

\* C3 amended: every name of filledFields is a key of the field map of the
\* analysis used for the fill; every name of failedFields is a key of the
\* caller's value map, and a key of the value map that the analysis does
\* not know is reported in failedFields once the fields have been processed.
C3_FilledAreAnalysisKeysFailedAreCallerKeys ==
    /\ Range(result.filled_fields) \subseteq DOMAIN analysis.fields
    /\ Range(result.failed_fields) \subseteq Range(args.keys)
    /\ InOrPastFields /\ pc # "fields" =>
          Range(args.keys) \ DOMAIN analysis.fields \subseteq Range(result.failed_fields)

\* C3 witness: a returned result reports a filled field and a failed name
\* the analysis does not know.
C3_Witness ==
    /\ pc = "done"
    /\ result.filled_fields # <<>>
    /\ \E k \in Range(result.failed_fields) : k \notin DOMAIN analysis.fields

\* C9: a processed key that the analysis does not know, or whose field is
\* read-only, is in failed, is not in filled, the codec's field update was
\* not invoked for it, and its field dictionary in the writer (and in the
\* written output) is the reader's.
C9_UnfillableKeysAreNotWritten ==
    InOrPastFields =>
        \A k \in Range(Processed) :
            (IF k \in DOMAIN analysis.fields THEN analysis.fields[k].is_readonly ELSE TRUE) =>
                /\ k \in Range(failed)
                /\ k \notin Range(filled)
                /\ \A i \in DOMAIN written : written[i].name # k
                /\ k \in FieldNames =>
                      /\ writer.obj[k] = reader.obj[k]
                      /\ output # NoDoc => output.obj[k] = reader.obj[k]

\* C9 witness: a successful call processed an unknown key and the key of a
\* read-only field, and wrote its output.
C9_Witness ==
    /\ pc = "done"
    /\ result.success
    /\ \E k \in Range(args.keys) : k \notin DOMAIN analysis.fields
    /\ \E k \in Range(args.keys) :
          k \in DOMAIN analysis.fields /\ analysis.fields[k].is_readonly

\* Whether a document has a widget annotation on some page.
HasWidget(d) ==
    \E i \in DOMAIN d.pages : \E j \in DOMAIN d.pages[i].annots :
        d.pages[i].annots[j].kind \in {"widget", "kid"}

\* C4: whenever a call with flatten = true returns success = true, the
\* written document has no /AcroForm and no widget annotation on any page,
\* and analysing it again reports no field.
C4_FlattenedOutputHasNoForm ==
    pc = "done" /\ result.success /\ args.flatten =>
        /\ ~output.acroForm
        /\ ~HasWidget(output)
        /\ DOMAIN ReAnalysis.fields = {}

\* C5: when a check box whose appearance dictionary has a checked state is
\* filled with the boolean true, the value handed to the codec is the name
\* of that state, and it is the field's stored value once the field is
\* reported filled.
C5_CheckboxTrueStoresOnState ==
    \A i \in DOMAIN written :
        LET name == written[i].name
        IN /\ analysis.fields[name].field_type = "checkbox"
           /\ written[i].value = BoolVal(TRUE)
           /\ reader.obj[name].on # None
           => /\ written[i].text = reader.obj[name].on
              /\ name \in Range(filled) => writer.obj[name].V = reader.obj[name].on

\* C6: after a successful fill without flattening, analysing the written
\* document reports, for every name of filledFields, the value fill handed
\* to the codec for it.
C6_ReanalysisReportsWrittenValue ==
    pc = "done" /\ result.success /\ ~args.flatten =>
        \A k \in Range(result.filled_fields) :
            /\ k \in DOMAIN ReAnalysis.fields
            /\ \E i \in DOMAIN written :
                  written[i].name = k /\ ReAnalysis.fields[k].value = written[i].text

\* C7: for a document without /AcroForm (so with neither a field table nor
\* an XFA entry), whatever its pages carry, analyze gives form type none,
\* no field and has_xfa = false; and form type none implies no field.
C7_NoFormMeansNoFields ==
    analysis # NoAnalysis =>
        /\ ~reader.acroForm =>
              /\ analysis.form_type = "none"
              /\ DOMAIN analysis.fields = {}
              /\ ~analysis.has_xfa
        /\ analysis.form_type = "none" => DOMAIN analysis.fields = {}

\* C8, the rows of the classification with an XFA entry: with fields the
\* form is hybrid and the priority warning is given; without fields it is
\* xfa_dynamic when the XFA text has a dynamic marker and xfa_static
\* otherwise, never hybrid.
C8_XfaClassification ==
    analysis # NoAnalysis /\ analysis.has_xfa =>
        IF GetFields(reader) # {}
        THEN /\ analysis.form_type = "hybrid"
             /\ \E i \in DOMAIN analysis.warnings :
                   analysis.warnings[i] = "hybrid: AcroForm takes priority"
        ELSE analysis.form_type =
                IF IsDynamicXfa(analysis.xfa_data) THEN "xfa_dynamic" ELSE "xfa_static"

\* C10: every call that met a fatal error (load, permission, serialization)
\* ended by returning a FillResult with success = false and an error.
C10_FatalErrorsReturnFailedResult ==
    pc = "done" /\ fatal # "none" =>
        /\ outcome = "returned"
        /\ ~result.success
        /\ result.errors # <<>>


\* C11: a path the codec cannot load makes the constructor raise: the call
\* ends there with the exception, no document is held, nothing was analysed,
\* filled or written; and analyze and fill only ever run with a loaded
\* document.
C11_LoadFailureRaisesAtConstruction ==
    /\ fatal = "load" =>
          /\ pc = "done"
          /\ outcome = "raised"
          /\ reader = NoDoc
          /\ analysis = NoAnalysis
          /\ writer = NoDoc
          /\ result = NewFillResult
          /\ output = NoDoc
    /\ reader = NoDoc => pc \in {"start", "done"} /\ analysis = NoAnalysis

\* The constructor raised on an unloadable path.
C11_Witness == pc = "done" /\ fatal = "load" /\ outcome = "raised" /\ reader = NoDoc


\* C12: _check_permissions never raises; it gives the four capabilities all
\* true for an unencrypted document and when /P cannot be read, and for an
\* encrypted document with integer P it gives print, modify, extract and
\* fill-forms as bits 4, 8, 16 and 256 of P (two's complement).
C12_PermissionDecoding ==
    call.fn = "_check_permissions" /\ ret # <<>> =>
        LET e == call.arg
            r == ret[1]
        IN IF e.encrypted /\ e.hasP
           THEN /\ r.can_print = (e.P % 8 >= 4)
                /\ r.can_modify = (e.P % 16 >= 8)
                /\ r.can_extract = (e.P % 32 >= 16)
                /\ r.can_fill_forms = (e.P % 512 >= 256)
           ELSE /\ r.can_print /\ r.can_modify /\ r.can_extract /\ r.can_fill_forms

\* A negative /P decoded to fill-forms without print, and a failed decode
\* is covered by the same run (EncryptedNoP).
C12_Witness ==
    /\ call.fn = "_check_permissions" /\ ret # <<>>
    /\ call.arg.encrypted /\ call.arg.hasP /\ call.arg.P < 0
    /\ ret[1].can_fill_forms /\ ~ret[1].can_print /\ ret[1].can_modify


\* C13: however the first calls of get_default_chinese_font interleave,
\* each font is registered at most once, _default_font is assigned at most
\* once, and every call returns the same name.
C13_FontInitialisedOnce ==
    /\ \A i, j \in DOMAIN registerCalls : registerCalls[i] = registerCalls[j] => i = j
    /\ Len(cacheWrites) <= 1
    /\ \A t, u \in Threads :
          \A i \in DOMAIN thread[t].rets, j \in DOMAIN thread[u].rets :
              thread[t].rets[i] = thread[u].rets[j]


\* str.lower() on the strings of the model.
Lower(s) ==
    CASE s \in {"True", "TRUE"} -> "true"
      [] s \in {"Yes", "YES"} -> "yes"
      [] s \in {"False", "FALSE"} -> "false"
      [] s \in {"No", "nO"} -> "no"
      [] OTHER -> s

\* C14: for a check box, a boolean and the spellings true/1/yes and
\* false/0/no in any letter case are turned into the on-state (the
\* conventional /Yes or the state the field declares) and the off-state.
C14_CheckboxSynonymsAnyCase ==
    /\ call.fn = "_fill_fields" /\ ret # <<>>
    /\ call.arg.field_info.field_type = "checkbox"
    => LET v == call.arg.value
           on == \/ v.kind = "bool" /\ v.b
                 \/ v.kind = "str" /\ Lower(v.s) \in {"true", "1", "yes"}
           off == \/ v.kind = "bool" /\ ~v.b
                  \/ v.kind = "str" /\ Lower(v.s) \in {"false", "0", "no"}
       IN /\ on => ret[1].text \in {"/Yes", FieldCatalogue["c"].on}
          /\ off => ret[1].text = "/Off"

\* C15: the text written for a text field with /MaxLen is at most that
\* long; a longer value is cut and a warning is recorded.
C15_TextTruncatedToMaxLength ==
    /\ call.fn = "_fill_fields" /\ ret # <<>>
    /\ call.arg.field_info.field_type = "text"
    /\ call.arg.field_info.max_length # <<>>
    /\ call.arg.value.kind = "str"
    => /\ Len(ret[1].text) <= call.arg.field_info.max_length[1]
       /\ Len(call.arg.value.s) > call.arg.field_info.max_length[1] => ret[1].warnings # <<>>


C17_ContainsChineseIffCjk ==
    call.fn = "contains_chinese" /\ ret # <<>> =>
        ret[1] = \E i \in DOMAIN call.arg :
                    \/ call.arg[i] \in 19968..40959
                    \/ call.arg[i] \in 13312..19903
                    \/ call.arg[i] \in 131072..173791


\* The positions of the candidate paths that exist on the machine.
ExistingCandidates ==
    {i \in DOMAIN CHINESE_FONT_PATHS : CHINESE_FONT_PATHS[i] \in fontEnv.existing}

\* C18: every call of the font resolver returns a name: ChineseFont when a
\* candidate path exists and is registered, else STSong-Light when the CID
\* font registers, else Helvetica; and the path registered under
\* ChineseFont is the first existing candidate in list order.
C18_FontResolution ==
    /\ \A t \in Threads : \A i \in DOMAIN thread[t].rets :
          thread[t].rets[i] =
              IF ExistingCandidates # {} /\ fontEnv.ttfOk THEN "ChineseFont"
              ELSE IF fontEnv.cidOk THEN "STSong-Light"
              ELSE "Helvetica"
    /\ \A f \in registered_fonts :
          /\ f.name = "ChineseFont"
          /\ \E i \in ExistingCandidates :
                /\ f.path = CHINESE_FONT_PATHS[i]
                /\ \A j \in ExistingCandidates : i <= j

\* A call returned ChineseFont on a machine with several candidate files,
\* the first of which is not the first of the list.
C18_Witness ==
    /\ \E t \in Threads : thread[t].rets # <<>> /\ thread[t].rets[1] = "ChineseFont"
    /\ Cardinality(ExistingCandidates) >= 2
    /\ 1 \notin ExistingCandidates
    /\ registered_fonts # {}


\* C19: in every step of a fill call, a field is written only inside the
\* loop of _fill_fields; the flatten step is entered and changes the writer
\* only when every key has been processed and the two lists are stored;
\* the file is written only after the flatten step, from the writer as that
\* step left it (without /AcroForm when flatten was asked for).
C19_FillThenFlattenThenSave ==
    [][/\ (written' # written \/ filled' # filled \/ failed' # failed) =>
              pc = "fields" /\ pc' = "fields"
       /\ (pc' = "flatten" /\ pc # "flatten") =>
              todo = <<>> /\ result'.filled_fields = filled
       /\ (writer' # writer /\ pc \notin {"writer", "fields"}) =>
              pc = "flatten" /\ args.flatten /\ todo = <<>> /\ pc' = "save"
       /\ output' # output =>
              /\ pc = "save"
              /\ output' = writer
              /\ args.flatten => ~writer.acroForm
      ]_vars

\* A call that filled a field, flattened and saved.
C19_Witness ==
    /\ pc = "done" /\ result.success /\ args.flatten
    /\ result.filled_fields # <<>>
    /\ reader.acroForm /\ ~output.acroForm /\ ~HasWidget(output)


\* An annotation that is no widget.
IsNotWidget(a) == a.kind \notin {"widget", "kid"}

\* The flatten step of a call that asked for flattening is over.
Flattened ==
    /\ args.flatten
    /\ \/ pc = "save"
       \/ pc = "done" /\ outcome = "returned" /\ fatal \in {"none", "serialization"}

\* The page loop of _flatten_form got through page i: no page up to i has
\* an entry that is no dictionary.
PageFlattened(i) ==
    \A j \in 1..i : \A k \in DOMAIN reader.pages[j].annots :
        reader.pages[j].annots[k].kind # "null"

\* C20: after the flatten step every page keeps its non-widget annotations
\* in their order, never has an empty annotation list under the key, and is
\* unchanged if it had no annotations key; a page the loop got through has
\* lost every widget, and its annotations key if nothing else was left.
C20_FlattenRemovesExactlyWidgets ==
    Flattened =>
        /\ Len(writer.pages) = Len(reader.pages)
        /\ \A i \in DOMAIN reader.pages :
              LET before == reader.pages[i]
                  after == writer.pages[i]
              IN /\ SelectSeq(after.annots, IsNotWidget) = SelectSeq(before.annots, IsNotWidget)
                 /\ after.hasAnnots => after.annots # <<>>
                 /\ ~before.hasAnnots => after = before
                 /\ PageFlattened(i) =>
                       /\ after.annots = SelectSeq(before.annots, IsNotWidget)
                       /\ after.hasAnnots = (SelectSeq(before.annots, IsNotWidget) # <<>>)

\* A page with a link and a widget kept the link only, and a page with
\* widgets only lost its annotations key.
C20_Witness ==
    /\ Flattened
    /\ \E i \in DOMAIN reader.pages :
          /\ reader.pages[i].annots = <<Link, Widget("t")>>
          /\ writer.pages[i].annots = <<Link>>
    /\ \E i \in DOMAIN reader.pages :
          /\ reader.pages[i].annots = <<Widget("r"), Widget("c")>>
          /\ ~writer.pages[i].hasAnnots

C22_FirstWidgetGivesRectAndPage ==
    (call.fn = "_extract_fields" /\ ret # <<>>) =>
        LET d == call.arg
            ws == PageAnnots(d.pages, 1)
            fields == ret[1]
        IN  \A n \in DOMAIN fields :
                LET idx == {i \in DOMAIN ws : GetFieldName(ws[i].annot) = n}
                    withRect == {i \in idx : AnnotDict(d, ws[i].annot).Rect # <<>>}
                    tableRect == IF n \in GetFields(d) THEN d.obj[n].Rect ELSE <<>>
                IN  idx # {} =>
                        /\ fields[n].page_index =
                               ws[CHOOSE i \in idx : \A j \in idx : i <= j].page_idx
                        /\ fields[n].rect =
                               IF tableRect # <<>> THEN tableRect
                               ELSE IF withRect = {} THEN <<>>
                               ELSE AnnotDict(d, ws[CHOOSE i \in withRect :
                                        \A j \in withRect : i <= j].annot).Rect

\* C23 (as stated; refuted): the name _get_field_name gives a dictionary
\* is its fully-qualified name, the /T entries along its parent chain
\* joined with "." from the outermost parent (chains of up to three
\* dictionaries), and None when the chain has no /T.
C23_WidgetNameIsFullyQualified ==
    (call.fn = "_get_field_name" /\ ret # <<>>) =>
        LET nd == call.arg
            p == IF nd.Parent = <<>> THEN <<>> ELSE nd.Parent[1].T
            g == IF nd.Parent = <<>> \/ nd.Parent[1].Parent = <<>>
                 THEN <<>>
                 ELSE nd.Parent[1].Parent[1].T
            Join(a, b) ==
                IF a = <<>> THEN b
                ELSE IF b = <<>> THEN a
                ELSE <<a[1] \o "." \o b[1]>>
            full == Join(Join(g, p), nd.T)
        IN  ret[1] = IF full = <<>> THEN None ELSE full[1]

\* C24: for a name of the field table, the widget pass leaves the field
\* as _parse_field made it from the table's dictionary, but for its
\* page_index and for a rect the table's dictionary did not have.
C24_TableIsAuthoritative ==
    (call.fn = "_extract_fields" /\ ret # <<>>) =>
        \A n \in GetFields(call.arg) :
            /\ n \in DOMAIN ret[1]
            /\ LET parsed == ParseField(n, call.arg.obj[n])
                   field == ret[1][n]
               IN  /\ [field EXCEPT !.page_index = 0, !.rect = <<>>]
                        = [parsed EXCEPT !.page_index = 0, !.rect = <<>>]
                   /\ parsed.rect # <<>> => field.rect = parsed.rect

\* A text field of the table without /Rect has a widget on the second page
\* that is a read-only radio group with a /Rect: the field stays a text
\* field and gets the widget's page and rect.
C24_Witness ==
    /\ call.fn = "_extract_fields"
    /\ ret # <<>>
    /\ GetFields(call.arg) = {"t"}
    /\ call.arg.obj["t"].Rect = <<>>
    /\ \E i \in DOMAIN call.arg.pages :
           /\ GetFieldName(call.arg.pages[i].annots[1]) = "t"
           /\ call.arg.pages[i].annots[1].dict.FT = "/Btn"
    /\ ret[1]["t"].field_type = "text"
    /\ ret[1]["t"].page_index = 1
    /\ ret[1]["t"].rect = <<5, 5, 15, 15>>

C26_SaveModeHasNoEffect ==
    (call.fn = "fill.save" /\ ret # <<>>) =>
        \A m \in SaveModes :
            LET other == [call.arg EXCEPT !.save_mode = m]
            IN  ret[1] \in {SaveSucceeded(other), SaveFailed(other)}

\* An incremental save with the input file in place has succeeded and
\* written the writer's document.
C26_Witness ==
    /\ call.fn = "fill.save"
    /\ call.arg.save_mode = "incremental"
    /\ call.arg.input_exists
    /\ ret # <<>>
    /\ ret[1].result.success
    /\ ret[1].output = <<call.arg.writer>>

\* C27: a fill or flatten request that does not answer 200 leaves no file
\* at the output path, and a fill request refused for the document's
\* permissions has generated no output id.
C27_FailedRequestLeavesNoFile ==
    (api.pc = "responded" /\ api.status # 200) =>
        /\ api.output_file = "absent"
        /\ api.status = 403 => api.new_file_id = <<>>

\* A fill request whose engine call returned a failed result after the
\* output was opened: the partial file has been removed, the answer is 500.
C27_Witness ==
    /\ api.pc = "responded"
    /\ api.kind = "fill"
    /\ api.status = 500
    /\ ~api.engine.success
    /\ api.engine.file = "partial"
    /\ api.removed
    /\ api.output_file = "absent"

\* C28 (as stated; refuted): a check box given a string that is none of
\* the spellings of true and false is not handed to the codec as it is and
\* reported filled: the key is not in filled_fields and the result has a
\* warning.
C28_IllTypedValueIsPerFieldError ==
    (pc = "done" /\ outcome = "returned") =>
        \A i \in DOMAIN written :
            (/\ analysis.fields[written[i].name].field_type = "checkbox"
             /\ written[i].value.kind = "str"
             /\ Lower(written[i].value.s) \notin {"true", "1", "yes", "false", "0", "no"})
            => /\ written[i].name \notin Range(result.filled_fields)
               /\ result.warnings # <<>>

\* C29 (as stated; refuted): a call of get_default_chinese_font that begins
\* when some call has returned a name returns that name at once, without
\* searching the candidate paths or registering a font, whatever has
\* happened to the candidate files.
C29_CachedFontIsReturned ==
    [][\A t \in Threads :
          (thread[t].pc = "idle" /\ thread'[t] # thread[t]) =>
              \A u \in Threads : \A i \in DOMAIN thread[u].rets :
                  /\ thread'[t].pc = "idle"
                  /\ thread'[t].rets = Append(thread[t].rets, thread[u].rets[i])
                  /\ registerCalls' = registerCalls]_vars

\* C30: a FillResult returned by fill has success exactly when it has an
\* output_path; with success the output_path is the caller's and errors is
\* empty; without success errors is not empty and there is no output_path.
C30_FillResultIsConsistent ==
    (pc = "done" /\ outcome = "returned") =>
        /\ result.success <=> result.output_path # None
        /\ result.success => result.output_path = "output_path" /\ result.errors = <<>>
        /\ ~result.success => result.errors # <<>> /\ result.output_path = None

\* A fill call has returned a failed result that lists filled fields: the
\* write failed after the fields were written.
C30_Witness ==
    /\ pc = "done"
    /\ outcome = "returned"
    /\ ~result.success
    /\ result.filled_fields # <<>>
    /\ result.errors # <<>>
    /\ result.output_path = None

====
